---- MODULE Spec2Model ----
(* GitHubCrawler (src/scraper.py): the fetch/retry loop of _fetch_with_retry *)
(* and the search orchestration of search, with the detail fetches that      *)
(* asyncio.gather runs concurrently.  Times are in milliseconds.             *)
EXTENDS Integers, Sequences, FiniteSets, TLC

\* ---------------------------------------------------------------- bounds
\* Largest number of anchors on a search page of the model.
MaxLinks == 2
\* Retry budgets explored for a single fetch are 0..MaxRetries and the default.
MaxRetries == 2
\* The operations a caller finishes on one crawler before its last call.
MaxOps == 4

\* ----------------------------------------------------- program constants
\* __init__: max_retries: int = 3
DefaultMaxRetries == 3
\* __init__: retry_delay: float = 1.0 (in ms)
DefaultRetryDelay == 1000
\* one second in the model's time unit
Second == 1000

\* __init__: self.base_url
base_url == "https://github.com"

\* __init__: self.retry_status_codes
retry_status_codes == {429, 500, 502, 503, 504}

\* search: the accepted search_type values
ValidSearchTypes == {"Repositories", "Issues", "Wikis"}

\* ------------------------------------------------------------- documents
\* An href attribute of an anchor: absent, or a string that urljoin splits
\* into an origin (empty for a root-relative href) and a path.
NoHref == [present |-> FALSE, origin |-> "", path |-> ""]
EmptyHref == [present |-> TRUE, origin |-> "", path |-> ""]
RelHref(p) == [present |-> TRUE, origin |-> "", path |-> p]
AbsHref(o, p) == [present |-> TRUE, origin |-> o, path |-> p]

\* An element that select_one / find may return: absent, or present with its
\* text; `padded` says the text has blanks around it, which strip() removes.
NoElem == [present |-> FALSE, text |-> "", padded |-> FALSE]
Elem(t, pad) == [present |-> TRUE, text |-> t, padded |-> pad]

\* The text of a page.  container: the page has div[data-testid=results-list];
\* anchors: the hrefs of the a[class^=prc-Link-Link] anchors inside it, in
\* document order; author, user_card, org_card: the first
\* span[itemprop=author], a[data-hovercard-type=user] and
\* a[data-hovercard-type=organization]; langs: the <<name, percentage text>>
\* pairs of the li.d-inline items of the list after the Languages heading;
\* alt_langs: those of the li[class*=language] items.
BlankDoc ==
    [empty |-> FALSE, container |-> FALSE, anchors |-> <<>>,
     author |-> NoElem, user_card |-> NoElem, org_card |-> NoElem,
     langs |-> <<>>, alt_langs |-> <<>>]
\* The empty string.
EmptyDoc == [BlankDoc EXCEPT !.empty = TRUE]
\* A search page with the given anchors in its results container.
SearchDoc(a) == [BlankDoc EXCEPT !.container = TRUE, !.anchors = a]

\* Optional[str]: None, or a string.
None == [is_none |-> TRUE, text |-> EmptyDoc]
Str(d) == [is_none |-> FALSE, text |-> d]
\* Python truthiness of an Optional[str]: `not content`.
Falsy(content) == content.is_none \/ content.text.empty


\* ------------------------------------------------- outcomes of one request
\* What one `session.get(...)` of _fetch_with_retry ends in: a response
\* (exc = "") with its status, body and Retry-After header, or an exception
\* raised inside the `try` (a failed read of the body is such an exception).
NoHeader == "<absent>"
Resp(s, b, h) == [exc |-> "", status |-> s, body |-> b, retry_after |-> h]
Exc(e) == [exc |-> e, status |-> 0, body |-> EmptyDoc, retry_after |-> NoHeader]
NoOutcome == Exc("<none>")

\* A Retry-After header in the HTTP-date form, which int() cannot parse.
HttpDate == "Wed, 21 Oct 2015 07:28:00 GMT"
\* The header values int() parses, with their values.
DecimalStrings == ("0" :> 0) @@ ("2" :> 2)

\* The Retry-After header never read: the wait is always int(delay).
IntOfRetryAfterIgnoringHeader(h, delay) ==
    [ok |-> TRUE, ms |-> (delay \div Second) * Second]
\* int(x) of line 132: x is the header string when the header is present and
\* the float `delay` otherwise.  ok = FALSE is the ValueError int() raises;
\* int(float) truncates to whole seconds.
IntOfRetryAfter(h, delay) ==
    IF h = NoHeader
    THEN [ok |-> TRUE, ms |-> (delay \div Second) * Second]
    ELSE IF h \in DOMAIN DecimalStrings
         THEN [ok |-> TRUE, ms |-> DecimalStrings[h] * Second]
         ELSE [ok |-> FALSE, ms |-> 0]

\* A loop that never looks at the counter.
LoopConditionAlways(rc, M) == TRUE
\* line 124: while retry_count <= self.max_retries
LoopCondition(rc, M) == rc <= M
\* The budget check counting one retry too few.
BudgetExhaustedOffByOne(rc, M) == rc >= M
\* lines 147, 166, 182: if retry_count > self.max_retries
BudgetExhausted(rc, M) == rc > M
\* Every error status taken for a retryable one.
IsRetryStatusAnyError(s) == s >= 400
\* lines 130, 162: status in self.retry_status_codes
IsRetryStatus(s) == s \in retry_status_codes
\* line 142: response.raise_for_status() raises for a status of 400 and above
RaisesForStatus(s) == s >= 400
\* A delay that never grows.
NextDelayUnchanged(d) == d
\* lines 160, 179, 195: delay *= 2
NextDelay(d) == d * 2
\* lines 153, 172, 188: jitter = random.uniform(0, 0.1 * delay), as the
\* interval the value is drawn from
Jitter(d) == [lo |-> 0, hi |-> d \div 10]

\* The handler list without its last clause, `except Exception`.
ExceptClauseNoCatchAll(e) ==
    CASE e \in {"ClientConnectorError", "ServerDisconnectedError"} -> "connection"
      [] e = "ClientResponseError" -> "response"
      [] e \in {"ClientError", "ClientPayloadError", "TimeoutError"} -> "client"
      [] OTHER -> "uncaught"
\* The except clause of lines 144-198 that catches exception e; none of them
\* catches what is not an Exception (asyncio.CancelledError, KeyboardInterrupt).
ExceptClause(e) ==
    CASE e \in {"ClientConnectorError", "ServerDisconnectedError"} -> "connection"
      [] e = "ClientResponseError" -> "response"
      [] e \in {"ClientError", "ClientPayloadError", "TimeoutError"} -> "client"
      [] e \in {"CancelledError", "KeyboardInterrupt"} -> "uncaught"
      [] OTHER -> "unexpected"

\* ------------------------------------------------------------------ URLs
\* A URL as _build_url and urljoin assemble it.
Url(o, p, q) == [origin |-> o, path |-> p, query |-> q]
NoUrl == Url("", "", <<>>)

\* str.lower() of a search_type.
Lower(st) ==
    CASE st = "Repositories" -> "repositories"
      [] st = "Issues" -> "issues"
      [] st = "Wikis" -> "wikis"
      [] OTHER -> st

\* lines 85-95: _build_url(path, query_params) on self.base_url; lstrip('/')
\* leaves the path "search" as it is.
BuildUrl(path, query_params) == Url(base_url, path, query_params)

\* lines 317-321: the search URL; "+".join(keywords) is kept as the list.
SearchUrl(keywords, st) == BuildUrl("search", <<keywords, Lower(st)>>)

\* line 298: urljoin(self.base_url, href): an absolute href keeps its own
\* origin, a root-relative one gets the base origin.
UrlJoin(base, h) ==
    IF h.origin = "" THEN Url(base, h.path, <<>>) ELSE Url(h.origin, h.path, <<>>)

\* line 297 (and 350): `if href:` holds for a present, non-empty href.
Truthy(h) == h.present /\ (h.origin # "" \/ h.path # "")

\* lines 289-300 (and 344-351): the URLs of the matched anchors that have an
\* href, in document order.
RECURSIVE ExtractLinks(_)
ExtractLinks(a) ==
    IF a = <<>> THEN <<>>
    ELSE LET rest == ExtractLinks(Tail(a)) IN
         IF Truthy(Head(a)) THEN <<UrlJoin(base_url, Head(a))>> \o rest ELSE rest

\* s without the repetitions of its elements.
RECURSIVE Dedup(_)
Dedup(q) ==
    IF q = <<>> THEN <<>>
    ELSE LET init == Dedup(SubSeq(q, 1, Len(q) - 1)) IN
         IF \E k \in 1..Len(init) : init[k] = q[Len(q)]
         THEN init ELSE Append(init, q[Len(q)])
\* The extraction dropping a link it has already seen.
ParseSearchResultsDedup(d) ==
    IF d.container THEN Dedup(ExtractLinks(d.anchors)) ELSE <<>>
\* lines 279-300: _parse_search_results(html_content)
ParseSearchResults(d) == IF d.container THEN ExtractLinks(d.anchors) ELSE <<>>

\* ------------------------------------------------------- detail extraction
\* float(pct.text.strip("%")) of lines 259 and 273, in tenths of a percent;
\* a text missing here makes float() raise ValueError.
PercentTexts ==
    ("75.5%" :> 755) @@ ("24.5%" :> 245) @@ ("100%" :> 1000) @@ ("150%" :> 1500)

\* The loop over the items left at the first percentage float() rejects.
RECURSIVE LanguagePairsUntilInvalid(_)
LanguagePairsUntilInvalid(items) ==
    IF items = <<>> THEN <<>>
    ELSE LET it == Head(items)
             rest == LanguagePairsUntilInvalid(Tail(items)) IN
         IF it[2] \in DOMAIN PercentTexts
         THEN IF \E k \in 1..Len(rest) : rest[k][1] = it[1]
              THEN rest
              ELSE <<<<it[1], PercentTexts[it[2]]>>>> \o rest
         ELSE <<>>
\* lines 252-261 (and 266-275): the name -> percentage pairs of the items,
\* later items overwriting earlier ones of the same name, unparsable ones
\* skipped.
RECURSIVE LanguagePairs(_)
LanguagePairs(items) ==
    IF items = <<>> THEN <<>>
    ELSE LET it == Head(items)
             rest == LanguagePairs(Tail(items)) IN
         IF it[2] \in DOMAIN PercentTexts
         THEN IF \E k \in 1..Len(rest) : rest[k][1] = it[1]
              THEN rest
              ELSE <<<<it[1], PercentTexts[it[2]]>>>> \o rest
         ELSE rest

\* Both layouts read, whatever the first gave.
LanguageStatsOfBoth(d) == LanguagePairs(d.langs \o d.alt_langs)
\* lines 246-275: the language box first, the language bar when it gave nothing.
LanguageStats(d) ==
    IF LanguagePairs(d.langs) # <<>> THEN LanguagePairs(d.langs)
    ELSE LanguagePairs(d.alt_langs)

\* The selectors tried from the last to the first.
OwnerOfLastMatch(d) ==
    IF d.org_card.present THEN d.org_card.text
    ELSE IF d.user_card.present THEN d.user_card.text
    ELSE IF d.author.present THEN d.author.text
    ELSE ""
\* lines 238-244: the owner element, first match of the three selectors.
OwnerOf(d) ==
    IF d.author.present THEN d.author.text
    ELSE IF d.user_card.present THEN d.user_card.text
    ELSE IF d.org_card.present THEN d.org_card.text
    ELSE ""

\* A page that could not be fetched recorded by its url alone.
RepoDetailsBareOnFailure(repo_url, content) ==
    IF Falsy(content)
    THEN [url |-> repo_url]
    ELSE [url |-> repo_url,
          extra |-> [owner |-> OwnerOf(content.text),
                     language_stats |-> LanguageStats(content.text)]]
\* lines 224-277: the record _get_repo_details(repo_url) builds from what
\* _fetch_page returned.
RepoDetails(repo_url, content) ==
    IF Falsy(content)
    THEN [url |-> repo_url, extra |-> [owner |-> "", language_stats |-> <<>>]]
    ELSE [url |-> repo_url,
          extra |-> [owner |-> OwnerOf(content.text),
                     language_stats |-> LanguageStats(content.text)]]

\* Every category given the record of a page that was not fetched.
UrlRecordWithExtra(u) == [url |-> u, extra |-> [owner |-> "", language_stats |-> <<>>]]
\* lines 344-352: the {"url": ...} record of Issues and Wikis.
UrlRecord(u) == [url |-> u]

\* ------------------------------------------------------------------ state
VARIABLES
    max_retries,     \* self.max_retries
    retry_delay,     \* self.retry_delay (ms)
    session,         \* self.session: 0 is None, n > 0 the n-th session created
    opened,          \* how many ClientSession objects were created
    closed,          \* the sessions whose close() has run
    proxies,         \* self.proxies
    current_proxy,   \* self.current_proxy
    task,            \* the fetch of each coroutine: 0 is the caller's own
                     \* fetch, i > 0 the detail task of link i
    call,            \* the search(...) call in progress or last made
    done_order,      \* the detail tasks in the order they completed
    client           \* the caller: where it is in its `async with` block,
                     \* the list it last passed to set_proxies, and how many
                     \* operations it has finished

vars == <<max_retries, retry_delay, session, opened, closed, proxies,
          current_proxy, task, call, done_order, client>>

TaskIds == 0..MaxLinks

\* self.current_proxy = None; a proxy URL is the list of its parts, the
\* scheme prefix first when it has one.
NoProxy == <<>>

\* One event of a fetch, in the order they happen: a request sent on session
\* `sess` through `proxy` with its outcome while the backoff delay was
\* `delay`, or an asyncio.sleep of some time from lo to hi.
AttemptEv(o, proxy, delay, sess) ==
    [ev |-> "attempt", out |-> o, lo |-> 0, hi |-> 0, proxy |-> proxy,
     delay |-> delay, session |-> sess]
SleepEv(lo, hi) ==
    [ev |-> "sleep", out |-> NoOutcome, lo |-> lo, hi |-> hi, proxy |-> NoProxy,
     delay |-> 0, session |-> 0]

\* A coroutine that is not fetching.
IdleTask ==
    [pc |-> "idle", url |-> NoUrl, retry_count |-> 0, delay |-> 0,
     result |-> None, upcoming |-> NoOutcome, log |-> <<>>]

\* The counter and the delay kept on the crawler, going on from where its
\* last fetch left them.
StartFetchInheriting(url, first) ==
    [pc |-> "attempt", url |-> url, retry_count |-> task[0].retry_count,
     delay |-> IF task[0].pc = "idle" THEN retry_delay ELSE task[0].delay,
     result |-> None, upcoming |-> first, log |-> <<>>]
\* lines 121-122: the locals of _fetch_with_retry(url) at its first request;
\* `first` is the response a scripted server holds ready for it (NoOutcome
\* when the server decides at the time of the request).
StartFetch(url, first) ==
    [pc |-> "attempt", url |-> url, retry_count |-> 0, delay |-> retry_delay,
     result |-> None, upcoming |-> first, log |-> <<>>]

\* The proxy left as it was passed.
NormaliseProxyNot(p) == p
\* lines 68-69: http:// is put before a proxy that starts with neither
\* http:// nor https://.
NormaliseProxy(p) ==
    IF p # <<>> /\ Head(p) \in {"http://", "https://"} THEN p
    ELSE <<"http://">> \o p

\* The pool gone through, one proxy further at every retry.
RequestProxyRotating(tk) ==
    IF proxies = <<>> THEN NoProxy
    ELSE NormaliseProxy(proxies[(tk.retry_count % Len(proxies)) + 1])
\* line 128: proxy=self.current_proxy, the same for every request of fetch tk.
RequestProxy(tk) == current_proxy

\* `return v` out of _fetch_with_retry.
Return(tk, v) == [tk EXCEPT !.pc = "done", !.result = v]
\* An exception no clause of lines 144-198 catches leaves _fetch_with_retry.
Raise(tk) == [tk EXCEPT !.pc = "raised"]

\* The sleep taken before the budget is looked at.
BackoffSleepingFirst(tk) ==
    LET rc == tk.retry_count + 1
        jitter == Jitter(tk.delay)
        slept == [tk EXCEPT !.retry_count = rc,
                            !.log = Append(@, SleepEv(tk.delay + jitter.lo,
                                                      tk.delay + jitter.hi))] IN
    IF BudgetExhausted(rc, max_retries)
    THEN Return(slept, None)
    ELSE [slept EXCEPT !.pc = "sleep_backoff"]
\* lines 146-160, 165-179, 181-195: count the retry, give up when the budget
\* is spent, else sleep delay + jitter.
Backoff(tk) ==
    LET rc == tk.retry_count + 1
        jitter == Jitter(tk.delay) IN
    IF BudgetExhausted(rc, max_retries)
    THEN Return([tk EXCEPT !.retry_count = rc], None)
    ELSE [tk EXCEPT !.retry_count = rc, !.pc = "sleep_backoff",
                    !.log = Append(@, SleepEv(tk.delay + jitter.lo,
                                              tk.delay + jitter.hi))]

\* lines 126-198: one pass of the loop body, from the request to the next
\* suspension point or return, for the outcome `o` of the request.
OnOutcome(tk, o) ==
    IF o.exc # ""
    THEN CASE ExceptClause(o.exc) = "unexpected" -> Return(tk, None)
           [] ExceptClause(o.exc) = "uncaught" -> Raise(tk)
           [] OTHER -> Backoff(tk)
    ELSE IF IsRetryStatus(o.status)
         THEN IF o.status = 429
              THEN LET ra == IntOfRetryAfter(o.retry_after, tk.delay) IN
                   IF ra.ok
                   THEN [tk EXCEPT !.pc = "sleep_429",
                                   !.log = Append(@, SleepEv(ra.ms, ra.ms))]
                   ELSE Return(tk, None)
              ELSE Backoff(tk)
         ELSE IF RaisesForStatus(o.status)
              THEN Return(tk, None)
              ELSE Return(tk, Str(o.body))

\* line 124 when the loop comes round: another request, or the end of the
\* function, which returns None.
LoopAgain(tk) ==
    IF LoopCondition(tk.retry_count, max_retries)
    THEN [tk EXCEPT !.pc = "attempt"]
    ELSE Return(tk, None)

\* A 429 that is not counted as a retry.
AfterSleepUncounted429(tk) ==
    IF tk.pc = "sleep_429"
    THEN LoopAgain(tk)
    ELSE LoopAgain([tk EXCEPT !.delay = NextDelay(@)])
\* lines 135-136 and 160 (179, 195): what follows the sleep.
AfterSleep(tk) ==
    IF tk.pc = "sleep_429"
    THEN LoopAgain([tk EXCEPT !.retry_count = @ + 1])
    ELSE LoopAgain([tk EXCEPT !.delay = NextDelay(@)])

\* A sleep that keeps the thread of the event loop: no other task runs.
HeldByBlockingSleep(s) == TaskIds \ {s}
\* lines 134, 159, 178, 194: `await asyncio.sleep(...)` suspends the
\* coroutine that awaits it and gives the event loop to the others: the
\* tasks that cannot run while task s sleeps.
HeldBySleep(s) == {}

\* Task t can be resumed by the event loop.
Runnable(t) ==
    \A s \in TaskIds :
        task[s].pc \in {"sleep_429", "sleep_backoff"} => t \notin HeldBySleep(s)

\* The check of search_type left out.
ValidTypeAny(st) == TRUE
\* line 314: search_type in ["Repositories", "Issues", "Wikis"]
ValidType(st) == st \in ValidSearchTypes

\* ------------------------------------------------------------ environment
\* Sequences over S of length at most n.
SeqsUpTo(S, n) == UNION {[1..k -> S] : k \in 0..n}

\* The hrefs the anchors of a search page carry.
Hrefs ==
    {RelHref("/u/r1"), AbsHref("https://github.com", "/u/r2"), NoHref, EmptyHref}

\* The bodies a search URL is answered with: the empty string, a page
\* without the results container, and pages with up to MaxLinks anchors.
SearchDocs ==
    {EmptyDoc, BlankDoc} \cup {SearchDoc(a) : a \in SeqsUpTo(Hrefs, MaxLinks)}

\* The bodies a repository URL is answered with.
RepoDoc ==
    [BlankDoc EXCEPT !.author = Elem("alice", TRUE),
                     !.langs = << <<"Python", "75.5%">>, <<"JavaScript", "24.5%">> >>]
DetailDocs == {EmptyDoc, RepoDoc}

\* What a request of a search may end in: success, a retryable status, a
\* non-retryable status.
OutcomesOver(docs) ==
    {Resp(200, d, NoHeader) : d \in docs}
    \cup {Resp(500, EmptyDoc, NoHeader), Resp(404, EmptyDoc, NoHeader)}

\* What a request of a single scripted fetch may end in.
FetchOutcomes ==
    {Resp(200, d, NoHeader) : d \in DetailDocs}
    \cup {Resp(429, EmptyDoc, h) : h \in {NoHeader, "2", HttpDate}}
    \cup {Resp(st, EmptyDoc, NoHeader) : st \in {500, 502, 503, 504, 403, 404, 501}}
    \cup {Exc(e) : e \in {"ClientConnectorError", "TimeoutError", "RuntimeError"}}

\* The keywords and search types a caller passes.
KeywordLists == {<<>>, <<"python">>, <<"python", "django">>}
SearchTypes == ValidSearchTypes \cup {"Invalid"}

\* The proxies of the tests (ip:port) and one that carries its scheme, and
\* the lists a caller passes to set_proxies.
Proxy1 == <<"127.0.0.1:8080">>
Proxy2 == <<"https://", "127.0.0.1:8081">>
ProxyPools == {<<>>, <<Proxy1>>, <<Proxy1, Proxy2>>, <<Proxy2, Proxy1>>}

\* What a caller that runs a whole crawl session meets: one search page with
\* two links, one repository page, and a server that succeeds or answers 503.
SessionSearchDocs ==
    {SearchDoc(<<RelHref("/u/r1"), AbsHref("https://github.com", "/u/r2")>>)}
SessionOutcomes(docs) ==
    {Resp(200, d, NoHeader) : d \in docs} \cup {Resp(503, EmptyDoc, NoHeader)}

\* What a request may end in on a server that also rate-limits, refuses and
\* times out: a success, a 503, a 429 without Retry-After or with one in
\* the HTTP-date form, a 404, a timeout.
LiveOutcomes(docs) ==
    SessionOutcomes(docs)
    \cup {Resp(429, EmptyDoc, NoHeader), Resp(429, EmptyDoc, HttpDate),
          Resp(404, EmptyDoc, NoHeader), Exc("TimeoutError")}

\* The pages handed to _parse_search_results and, as what _fetch_page
\* returned, to _get_repo_details: the pages of the tests and their
\* variations in owner elements and language items.
ParseDocs == SearchDocs \cup {SearchDoc(<<RelHref("/u/r1"), RelHref("/u/r1")>>)}
OwnerPages ==
    {[RepoDoc EXCEPT !.author = a, !.user_card = u, !.org_card = o] :
        a \in {NoElem, Elem("testuser", TRUE), Elem("", FALSE)},
        u \in {NoElem, Elem("bob", FALSE)},
        o \in {NoElem, Elem("acme", FALSE)}}
LangItems ==
    {<<"Python", "75.5%">>, <<"JavaScript", "24.5%">>, <<"Python", "invalid">>,
     <<"Python", "100%">>, <<"Go", "150%">>}
LangLists ==
    {<<>>} \cup {<<a>> : a \in LangItems} \cup {<<a, b>> : a, b \in LangItems}
AltLangLists == {<<>>, <<<<"Rust", "100%">>>>, <<<<"Rust", "invalid">>>>}
LangPages ==
    {[BlankDoc EXCEPT !.author = Elem("testuser", TRUE), !.langs = l, !.alt_langs = al] :
        l \in LangLists, al \in AltLangLists}
DetailContents == {None, Str(EmptyDoc)} \cup {Str(d) : d \in OwnerPages \cup LangPages}

\* The retry budgets of the crawlers that run a search.
SearchRetries == {0, 1}
\* The retry budgets and initial delays of the crawlers that run one fetch.
FetchRetries == (0..MaxRetries) \cup {DefaultMaxRetries}
FetchDelays == {DefaultRetryDelay, DefaultRetryDelay + Second \div 2}

\* ------------------------------------------------------------------- Init
\* fetch_calls counts the calls of _fetch_with_retry a direct call of
\* _fetch_page makes.
NoCall ==
    [pc |-> "idle", keywords |-> <<>>, search_type |-> "", content |-> None,
     repo_urls |-> <<>>, results |-> <<>>, fetch_calls |-> 0]

\* The caller before its first operation.
\* `got` holds what its direct calls of the extraction functions returned.
NewClient == [phase |-> "new", passed |-> <<>>, ops |-> 0, got |-> <<>>]

\* lines 32-46: the crawler after __init__, before any call.
Constructed ==
    /\ session = 0
    /\ opened = 0
    /\ closed = {}
    /\ proxies = <<>>
    /\ current_proxy = NoProxy
    /\ task = [t \in TaskIds |-> IdleTask]
    /\ call = NoCall
    /\ done_order = <<>>
    /\ client = NewClient

Init ==
    /\ max_retries \in SearchRetries
    /\ retry_delay = DefaultRetryDelay
    /\ Constructed

InitSession ==
    /\ max_retries = 1
    /\ retry_delay = DefaultRetryDelay
    /\ Constructed

InitFetch ==
    /\ max_retries \in FetchRetries
    /\ retry_delay \in FetchDelays
    /\ Constructed

\* ---------------------------------------------------------------- actions
\* A lazy open that also replaces a session that has been closed.
OpenSessionWhenClosed ==
    /\ session' = IF session = 0 \/ session \in closed THEN opened + 1 ELSE session
    /\ opened' = IF session = 0 \/ session \in closed THEN opened + 1 ELSE opened
\* lines 107-119 and 210-211: `if not self.session:` opens the session.
OpenSession ==
    /\ session' = IF session = 0 THEN opened + 1 ELSE session
    /\ opened' = IF session = 0 THEN opened + 1 ELSE opened

\* The results collected in the order the tasks completed.
GatherByCompletion(urls, tk, order) ==
    [k \in 1..Len(urls) |-> RepoDetails(urls[order[k]], tk[order[k]].result)]
\* asyncio.gather(*tasks), line 340: the results in the order of the tasks.
GatherResults(urls, tk, order) ==
    [i \in 1..Len(urls) |-> RepoDetails(urls[i], tk[i].result)]

\* A failed search-page fetch surfaced as an error.
AfterSearchPageRaising(c, content) ==
    IF content.is_none
    THEN [c EXCEPT !.pc = "raised", !.content = content]
    ELSE LET urls == ParseSearchResults(content.text) IN
         IF c.search_type = "Repositories" /\ urls # <<>>
         THEN [c EXCEPT !.pc = "gather", !.content = content, !.repo_urls = urls]
         ELSE [c EXCEPT !.pc = "returned", !.content = content,
                        !.results = IF c.search_type = "Repositories" THEN <<>>
                                    ELSE [i \in 1..Len(urls) |-> UrlRecord(urls[i])]]
\* lines 324-352: search from the return of the search-page fetch to its
\* return or to the gather it waits in.
AfterSearchPage(c, content) ==
    IF Falsy(content)
    THEN [c EXCEPT !.pc = "returned", !.content = content]
    ELSE IF c.search_type = "Repositories"
    THEN LET urls == ParseSearchResults(content.text) IN
         IF urls = <<>>
         THEN [c EXCEPT !.pc = "returned", !.content = content]
         ELSE [c EXCEPT !.pc = "gather", !.content = content, !.repo_urls = urls]
    ELSE LET urls == ParseSearchResults(content.text) IN
         [c EXCEPT !.pc = "returned", !.content = content,
                   !.results = [i \in 1..Len(urls) |-> UrlRecord(urls[i])]]

\* Task t's fetch moved to state tk: when it returned, its caller runs on in
\* the same step (search after the search page, _get_repo_details after a
\* detail page, _fetch_page at line 212), and the detail tasks of a gather
\* start their fetches.  An exception that left the fetch leaves its callers.
Proceed(t, tk) ==
    IF tk.pc = "raised" /\ call.pc \in {"fetch", "gather", "page"}
    THEN /\ call' = [call EXCEPT !.pc = "raised"]
         /\ task' = [task EXCEPT ![t] = tk]
         /\ done_order' = done_order
    ELSE IF t = 0 /\ call.pc = "page" /\ tk.pc = "done"
    THEN /\ call' = [call EXCEPT !.pc = "returned", !.content = tk.result]
         /\ task' = [task EXCEPT ![t] = tk]
         /\ done_order' = done_order
    ELSE IF t = 0 /\ call.pc = "fetch" /\ tk.pc = "done"
    THEN LET c == AfterSearchPage(call, tk.result) IN
         /\ call' = c
         /\ task' = [i \in TaskIds |->
                       IF i = 0 THEN tk
                       ELSE IF c.pc = "gather" /\ i <= Len(c.repo_urls)
                            THEN StartFetch(c.repo_urls[i], NoOutcome)
                            ELSE task[i]]
         /\ done_order' = done_order
    ELSE /\ call' = call
         /\ task' = [task EXCEPT ![t] = tk]
         /\ done_order' = IF t > 0 /\ tk.pc = "done"
                          THEN Append(done_order, t) ELSE done_order

\* lines 126-198: task t sends its request and handles the outcome: the one
\* a scripted server held ready, else any of `outcomes`.  A scripted server
\* (`scripted`) then readies its next response.
Attempt(t, outcomes, scripted) ==
    /\ task[t].pc = "attempt"
    /\ Runnable(t)
    /\ \E o \in outcomes, nxt \in outcomes :
         /\ task[t].upcoming # NoOutcome => o = task[t].upcoming
         /\ LET sent == [task[t] EXCEPT
                           !.log = Append(@, AttemptEv(o, RequestProxy(task[t]),
                                                       task[t].delay, session))]
                tk == OnOutcome(sent, o)
            IN Proceed(t, [tk EXCEPT !.upcoming = IF scripted THEN nxt ELSE NoOutcome])
    /\ UNCHANGED <<max_retries, retry_delay, session, opened, closed, proxies,
                   current_proxy, client>>

\* lines 134-136, 159-160, 178-179, 194-195: task t's sleep ends.
Wake(t) ==
    /\ task[t].pc \in {"sleep_429", "sleep_backoff"}
    /\ Runnable(t)
    /\ Proceed(t, AfterSleep(task[t]))
    /\ UNCHANGED <<max_retries, retry_delay, session, opened, closed, proxies,
                   current_proxy, client>>

\* lines 314-322: search(keywords, search_type) up to its first request.
Search(keywords, st) ==
    /\ call.pc = "idle"
    /\ IF ~ValidType(st)
       THEN /\ call' = [call EXCEPT !.pc = "raised", !.keywords = keywords,
                                    !.search_type = st]
            /\ UNCHANGED <<session, opened, task>>
       ELSE /\ call' = [call EXCEPT !.pc = "fetch", !.keywords = keywords,
                                    !.search_type = st]
            /\ OpenSession
            /\ task' = [task EXCEPT ![0] = StartFetch(SearchUrl(keywords, st), NoOutcome)]
    /\ UNCHANGED <<max_retries, retry_delay, closed, proxies, current_proxy,
                   done_order, client>>

\* A gather that is over as soon as one of its tasks is.
GatherFirstCompleted(urls, tk) == \E i \in 1..Len(urls) : tk[i].pc = "done"
\* line 340: `await asyncio.gather(*tasks)` is over when every task is.
GatherCompleted(urls, tk) == \A i \in 1..Len(urls) : tk[i].pc = "done"

\* lines 340-341: every task of the gather is done; search returns.
GatherReturn ==
    /\ call.pc = "gather"
    /\ GatherCompleted(call.repo_urls, task)
    /\ call' = [call EXCEPT !.pc = "returned",
                            !.results = GatherResults(call.repo_urls, task, done_order)]
    /\ UNCHANGED <<max_retries, retry_delay, session, opened, closed, proxies,
                   current_proxy, task, done_order, client>>

\* lines 97-122: a direct call of _fetch_with_retry(url), as the tests make
\* it, against a server whose responses are scripted.
FetchWithRetry ==
    /\ call.pc = "idle"
    /\ call' = [call EXCEPT !.pc = "direct"]
    /\ OpenSession
    /\ \E first \in FetchOutcomes :
         task' = [task EXCEPT ![0] = StartFetch(Url(base_url, "", <<>>), first)]
    /\ UNCHANGED <<max_retries, retry_delay, closed, proxies, current_proxy,
                   done_order, client>>

\* lines 48-51: __aenter__ creates a session, whatever self.session holds.
\* The caller enters its `async with` block once.
AEnter ==
    /\ call.pc = "idle"
    /\ client.phase = "new"
    /\ client.ops < MaxOps
    /\ session' = opened + 1
    /\ opened' = opened + 1
    /\ client' = [client EXCEPT !.phase = "entered", !.ops = @ + 1]
    /\ UNCHANGED <<max_retries, retry_delay, closed, proxies, current_proxy,
                   task, call, done_order>>

\* lines 53-56: __aexit__, at the end of the `async with` block, whether
\* the block returned or raised; self.session keeps its value.
AExit ==
    /\ call.pc = "idle"
    /\ client.phase = "entered"
    /\ client.ops < MaxOps
    /\ closed' = IF session # 0 THEN closed \cup {session} ELSE closed
    /\ client' = [client EXCEPT !.phase = "exited", !.ops = @ + 1]
    /\ UNCHANGED <<max_retries, retry_delay, session, opened, proxies,
                   current_proxy, task, call, done_order>>

\* lines 58-72: set_proxies(pool).
SetProxies(pool) ==
    /\ call.pc = "idle"
    /\ client.ops < MaxOps
    /\ proxies' = pool
    /\ IF pool # <<>>
       THEN \E i \in 1..Len(pool) : current_proxy' = NormaliseProxy(pool[i])
       ELSE current_proxy' = NoProxy
    /\ client' = [client EXCEPT !.passed = pool, !.ops = @ + 1]
    /\ UNCHANGED <<max_retries, retry_delay, session, opened, closed, task,
                   call, done_order>>

\* lines 200-212: a direct call of _fetch_page(url), up to the first
\* request of its one call of _fetch_with_retry.
FetchPage ==
    /\ call.pc = "idle"
    /\ call' = [call EXCEPT !.pc = "page", !.fetch_calls = 1]
    /\ OpenSession
    /\ task' = [task EXCEPT ![0] = StartFetch(Url(base_url, "/u/r1", <<>>), NoOutcome)]
    /\ UNCHANGED <<max_retries, retry_delay, closed, proxies, current_proxy,
                   done_order, client>>

\* The caller takes what its call returned or raised; the coroutines of the
\* call are gone.
Consume ==
    /\ call.pc \in {"returned", "raised"}
    /\ client.ops < MaxOps
    /\ call' = NoCall
    /\ task' = [t \in TaskIds |-> IdleTask]
    /\ done_order' = <<>>
    /\ client' = [client EXCEPT !.ops = @ + 1]
    /\ UNCHANGED <<max_retries, retry_delay, session, opened, closed, proxies,
                   current_proxy>>

\* The url the tests pass to _get_repo_details.
RepoUrl == Url(base_url, "/user/repo", <<>>)
\* The record of a call that built none.
NoDetails == RepoDetails(NoUrl, None)

\* An extractor that keeps its output list on the crawler and never clears it.
ExtractionCarriedOver(op, content) ==
    LET before == IF client.got = <<>> THEN <<>> ELSE client.got[Len(client.got)].urls IN
    [op |-> op, content |-> content, at |-> client.ops,
     urls |-> IF op = "parse" THEN before \o ParseSearchResults(content.text) ELSE <<>>,
     details |-> IF op = "details" THEN RepoDetails(RepoUrl, content) ELSE NoDetails]
\* What a direct call returns: _parse_search_results(html) (lines 279-300)
\* its list of urls, _get_repo_details(url) (lines 223-277), with _fetch_page
\* returning `content`, its record; `at` is the number of operations the
\* caller had finished before it.
Extraction(op, content) ==
    [op |-> op, content |-> content, at |-> client.ops,
     urls |-> IF op = "parse" THEN ParseSearchResults(content.text) ELSE <<>>,
     details |-> IF op = "details" THEN RepoDetails(RepoUrl, content) ELSE NoDetails]

\* A direct call of an extraction function, as the tests make it; the
\* caller makes a second one on the markup of the first.
Extract(op, content) ==
    /\ call.pc = "idle"
    /\ Len(client.got) < 2
    /\ client.got # <<>> => op = client.got[1].op /\ content = client.got[1].content
    /\ client' = [client EXCEPT !.got = Append(@, Extraction(op, content))]
    /\ UNCHANGED <<max_retries, retry_delay, session, opened, closed, proxies,
                   current_proxy, task, call, done_order>>

SearchRequest == Attempt(0, OutcomesOver(SearchDocs), FALSE)
DetailRequest == \E t \in 1..MaxLinks : Attempt(t, OutcomesOver(DetailDocs), FALSE)
ScriptedRequest == Attempt(0, FetchOutcomes, TRUE)
SleepEnds == \E t \in TaskIds : Wake(t)
SearchCalled == \E kw \in KeywordLists, st \in SearchTypes : Search(kw, st)

Next ==
    \/ SearchCalled
    \/ SearchRequest
    \/ DetailRequest
    \/ SleepEnds
    \/ GatherReturn

Spec == Init /\ [][Next]_vars

NextFetch ==
    \/ FetchWithRetry
    \/ ScriptedRequest
    \/ SleepEnds

SpecFetch == InitFetch /\ [][NextFetch]_vars

SessionSearchCalled == \E st \in SearchTypes : Search(<<"python">>, st)
SessionSearchRequest == Attempt(0, SessionOutcomes(SessionSearchDocs \cup {RepoDoc}), FALSE)
SessionDetailRequest == \E t \in 1..MaxLinks : Attempt(t, SessionOutcomes({RepoDoc}), FALSE)
ProxiesSet == \E pool \in ProxyPools : SetProxies(pool)

\* One caller and one crawler, from construction through any order of
\* session start, set_proxies, searches, page fetches and session end.
NextSession ==
    \/ AEnter
    \/ AExit
    \/ ProxiesSet
    \/ FetchPage
    \/ SessionSearchCalled
    \/ SessionSearchRequest
    \/ SessionDetailRequest
    \/ SleepEnds
    \/ GatherReturn
    \/ Consume

SpecSession == InitSession /\ [][NextSession]_vars

ParseCalled == \E d \in ParseDocs : Extract("parse", Str(d))
DetailsCalled == \E c \in DetailContents : Extract("details", c)
\* The request of a page fetch made between them: answered or refused.
PageRequest ==
    Attempt(0, {Resp(200, RepoDoc, NoHeader), Resp(404, EmptyDoc, NoHeader)}, FALSE)

\* The extraction functions called directly on every page of the model.
NextExtract ==
    \/ ParseCalled
    \/ DetailsCalled

SpecExtract == InitSession /\ [][NextExtract]_vars

\* The extraction functions called on the pages of the tests.
TestPageParsed == \E d \in SessionSearchDocs \cup {EmptyDoc} : Extract("parse", Str(d))
TestPageDetails == \E c \in {None, Str(EmptyDoc), Str(RepoDoc)} : Extract("details", c)

\* One caller that calls the extraction functions directly, between the
\* other operations of its crawler.
NextExtractBetween ==
    \/ TestPageParsed
    \/ TestPageDetails
    \/ AEnter
    \/ AExit
    \/ ProxiesSet
    \/ FetchPage
    \/ PageRequest
    \/ Consume

SpecExtractBetween == InitSession /\ [][NextExtractBetween]_vars

LiveSearchRequest == Attempt(0, LiveOutcomes(SessionSearchDocs \cup {RepoDoc}), FALSE)
LiveDetailRequest(t) == Attempt(t, LiveOutcomes({RepoDoc}), FALSE)
LiveDetailRequests == \E t \in 1..MaxLinks : LiveDetailRequest(t)

\* One search from its call to its return, every request answered in one of
\* the ways of LiveOutcomes.
NextLive ==
    \/ SessionSearchCalled
    \/ LiveSearchRequest
    \/ LiveDetailRequests
    \/ SleepEnds
    \/ GatherReturn

\* The event loop resumes every coroutine that can go on: a request
\* that was sent gets its outcome, a sleep that was started ends, and the
\* search is resumed when its gather is over.  The caller is not bound to
\* call search.
LiveScheduling ==
    /\ WF_vars(LiveSearchRequest)
    /\ \A t \in 1..MaxLinks : WF_vars(LiveDetailRequest(t))
    /\ \A t \in TaskIds : WF_vars(Wake(t))
    /\ WF_vars(GatherReturn)

SpecLive == Init /\ [][NextLive]_vars /\ LiveScheduling

\* -------------------------------------------------------------- observers
\* The requests of a fetch, and their outcomes.
Attempts(tk) == SelectSeq(tk.log, LAMBDA e : e.ev = "attempt")
Outcomes(tk) == [i \in 1..Len(Attempts(tk)) |-> Attempts(tk)[i].out]
\* The responses of a scripted server: those received, then the one ready.
Script(tk) ==
    Outcomes(tk) \o (IF tk.upcoming = NoOutcome THEN <<>> ELSE <<tk.upcoming>>)
\* The least total time of the sleeps of a log.
RECURSIVE WaitedAtLeast(_)
WaitedAtLeast(log) ==
    IF log = <<>> THEN 0
    ELSE (IF Head(log).ev = "sleep" THEN Head(log).lo ELSE 0) + WaitedAtLeast(Tail(log))
\* No request has been sent by any task.
NoRequests == \A t \in TaskIds : Attempts(task[t]) = <<>>
\* The number of anchors of a page that carry a link.
LinkCount(d) ==
    IF d.container
    THEN Cardinality({i \in DOMAIN d.anchors : Truthy(d.anchors[i])})
    ELSE 0
IsSuccess(o) == o.exc = "" /\ o.status \in 200..299
Is5xxRetryable(o) == o.exc = "" /\ o.status \in {500, 502, 503, 504}
Is429(o) == o.exc = "" /\ o.status = 429
IsNonRetryable4xx(o) == o.exc = "" /\ o.status \in 400..499 /\ o.status # 429
IsRetryable(o) ==
    \/ o.exc = "" /\ o.status \in {429, 500, 502, 503, 504}
    \/ o.exc \in {"ClientConnectorError", "ServerDisconnectedError",
                  "ClientError", "TimeoutError"}

\* ----------------------------------------------------------------- claims
\* C1: in a Repositories search that discovered links L1..Ln, the record at
\* index i of the returned collection is the record of Li: its url is Li and
\* it is built from what the fetch of Li returned, whatever the order in
\* which the detail fetches completed, retried or failed.
OrderPreserved ==
    (call.pc = "returned" /\ call.search_type = "Repositories"
       /\ ~Falsy(call.content)) =>
        LET L == ParseSearchResults(call.content.text) IN
        /\ Len(call.results) = Len(L)
        /\ \A i \in 1..Len(L) :
             /\ call.results[i].url = L[i]
             /\ task[i].url = L[i]
             /\ call.results[i] = RepoDetails(L[i], task[i].result)

\* C1 witness: two different links, the second fetch completed first and
\* failed, the first one retried and succeeded.
OrderPreservedWitness ==
    /\ call.pc = "returned"
    /\ call.search_type = "Repositories"
    /\ Len(call.results) = 2
    /\ call.results[1].url # call.results[2].url
    /\ done_order = <<2, 1>>
    /\ Len(Attempts(task[1])) = 2
    /\ ~task[1].result.is_none
    /\ task[2].result.is_none

\* C2: for non-empty keywords and a valid category, search returns as many
\* records as the search page has result links, and none when the fetch of
\* the search page failed.
ResultLengthIsLinkCount ==
    (call.pc = "returned" /\ call.keywords # <<>>
       /\ call.search_type \in ValidSearchTypes) =>
        Len(call.results) = IF task[0].result.is_none THEN 0
                            ELSE LinkCount(task[0].result.text)

\* C2 witness: a Repositories search returned two records of the same link.
ResultLengthWitness ==
    /\ call.pc = "returned"
    /\ call.keywords # <<>>
    /\ call.search_type = "Repositories"
    /\ Len(call.results) = 2
    /\ call.results[1].url = call.results[2].url

\* C3: search with an empty keywords list returns an empty collection and
\* no task sends a request, for every valid category.
EmptyKeywordsNoRequest ==
    (call.pc \notin {"idle", "direct"} /\ call.keywords = <<>>
       /\ call.search_type \in ValidSearchTypes) =>
        /\ NoRequests
        /\ call.pc = "returned" => call.results = <<>>

\* C4: search with a category outside Repositories, Issues, Wikis ends in
\* the validation error, whatever the keywords, and no request is sent and
\* no session opened before it.
InvalidTypeRaises ==
    (call.pc \notin {"idle", "direct"}
       /\ call.search_type \notin ValidSearchTypes) =>
        /\ call.pc = "raised"
        /\ NoRequests
        /\ opened = 0

\* C4 witness: search(["python"], "Invalid") raised.
InvalidTypeWitness ==
    /\ call.pc = "raised"
    /\ call.search_type = "Invalid"
    /\ call.keywords = <<"python">>

\* C5: when the fetch of the search page returned no content, search has
\* returned the empty collection, raised nothing, and no detail task was
\* started.
SearchPageFailureGivesEmpty ==
    (call.pc \notin {"idle", "direct"} /\ task[0].pc = "done"
       /\ task[0].result.is_none) =>
        /\ call.pc = "returned"
        /\ call.results = <<>>
        /\ \A t \in 1..MaxLinks : task[t] = IdleTask

\* C5 witness: a Repositories search whose search-page fetch spent its
\* budget of one retry.
SearchPageFailureWitness ==
    /\ call.pc = "returned"
    /\ call.search_type = "Repositories"
    /\ call.keywords # <<>>
    /\ task[0].pc = "done"
    /\ task[0].result.is_none
    /\ Len(Attempts(task[0])) = 2

\* C6: a fetch whose every attempt received a retryable 5xx status makes at
\* most max_retries + 1 attempts, is done as soon as it made that many, and
\* when it is done it returned None after exactly max_retries + 1 attempts.
ExhaustionAfterBudget ==
    LET tk == task[0]
        n == Len(Attempts(tk)) IN
    (tk.pc # "idle" /\ \A i \in 1..n : Is5xxRetryable(Outcomes(tk)[i])) =>
        /\ n <= max_retries + 1
        /\ n = max_retries + 1 => tk.pc = "done"
        /\ tk.pc = "done" => tk.result = None /\ n = max_retries + 1

\* C6 witness: the default budget of 3, four attempts answered 500, None.
ExhaustionWitness ==
    /\ max_retries = DefaultMaxRetries
    /\ task[0].pc = "done"
    /\ task[0].result = None
    /\ Len(Attempts(task[0])) = 4
    /\ \A i \in 1..4 : Outcomes(task[0])[i].status = 500

\* The script starts with k responses 429 with Retry-After: 2 and a success.
RateLimitedThenSuccess(s, k) ==
    /\ Len(s) >= k + 1
    /\ \A i \in 1..k : Is429(s[i]) /\ s[i].retry_after = "2"
    /\ IsSuccess(s[k + 1])

\* C7 as stated: for one or more 429 responses with Retry-After: 2 followed
\* by a 200 response, the fetch returns the body of the 200 response and
\* waited at least 2 seconds.
RateLimitThenSuccessAnyLength ==
    LET tk == task[0]
        s == Script(tk) IN
    tk.pc = "done" =>
        \A k \in 1..Len(s) :
            RateLimitedThenSuccess(s, k) =>
                /\ tk.result = Str(s[k + 1].body)
                /\ WaitedAtLeast(tk.log) >= 2 * Second

\* C7 amended: for k 429 responses with Retry-After: 2, 1 <= k <= max_retries,
\* followed by a 200 response, the fetch returns the body of the 200
\* response after waiting 2 seconds per 429, at least 2 seconds in all.
RateLimitThenSuccessWithinBudget ==
    LET tk == task[0]
        s == Script(tk) IN
    tk.pc = "done" =>
        \A k \in 1..max_retries :
            RateLimitedThenSuccess(s, k) =>
                /\ tk.result = Str(s[k + 1].body)
                /\ Len(Attempts(tk)) = k + 1
                /\ WaitedAtLeast(tk.log) = k * 2 * Second
                /\ WaitedAtLeast(tk.log) >= 2 * Second

\* C7 witness: two 429 responses with Retry-After: 2, then the page.
RateLimitWitness ==
    /\ task[0].pc = "done"
    /\ Len(Attempts(task[0])) = 3
    /\ RateLimitedThenSuccess(Script(task[0]), 2)
    /\ task[0].result = Str(RepoDoc)

\* C8: after a 429 response whose Retry-After header is absent or is no
\* number of seconds, the fetch sleeps exactly the backoff delay it had at
\* that request; it does not end there.
RetryAfterDefaultsToDelay ==
    LET log == task[0].log IN
    \A i \in 1..Len(log) :
        (log[i].ev = "attempt" /\ Is429(log[i].out)
           /\ log[i].out.retry_after \notin DOMAIN DecimalStrings) =>
            /\ i < Len(log)
            /\ log[i + 1].ev = "sleep"
            /\ log[i + 1].lo = log[i].delay
            /\ log[i + 1].hi = log[i].delay

\* The positions among the first max_retries + 1 responses of the script
\* that hold a success with only retryable outcomes before it.
SuccessInBudget(s) ==
    {j \in 1..Len(s) :
        /\ j <= max_retries + 1
        /\ IsSuccess(s[j])
        /\ \A i \in 1..(j - 1) : IsRetryable(s[i])}

\* C9: a fetch returns content if and only if one of the first
\* max_retries + 1 responses is a success and every response before it is a
\* retryable one; the content is the body of that response and that
\* request is the last.
ContentIffSuccessInBudget ==
    LET tk == task[0]
        s == Script(tk) IN
    tk.pc = "done" =>
        /\ ~tk.result.is_none <=> SuccessInBudget(s) # {}
        /\ \A j \in SuccessInBudget(s) :
             tk.result = Str(s[j].body) /\ Len(Attempts(tk)) = j

\* C10: a non-retryable 4xx status ends the fetch at that request: no
\* request and no sleep follows it, and the fetch returned None, whatever
\* came before it and whatever is left of the budget.
NonRetryableEndsFetch ==
    LET tk == task[0] IN
    \A i \in 1..Len(tk.log) :
        (tk.log[i].ev = "attempt" /\ IsNonRetryable4xx(tk.log[i].out)) =>
            /\ i = Len(tk.log)
            /\ tk.pc = "done"
            /\ tk.result = None

\* C10 witness: a 500, the backoff sleep, then a 404, with two retries of
\* the default budget left.
NonRetryableWitness ==
    /\ max_retries = DefaultMaxRetries
    /\ task[0].pc = "done"
    /\ Len(task[0].log) = 3
    /\ Outcomes(task[0])[1].status = 500
    /\ task[0].log[2].ev = "sleep"
    /\ Outcomes(task[0])[2].status = 404

\* The outcomes that are neither a response nor an error of the HTTP client.
IsUnexpected(o) == o.exc \in {"RuntimeError", "ValueError", "KeyError"}

\* C11: a fetch never leaves by an exception: whatever its attempts ended
\* in, it makes at most max_retries + 1 of them and, when done, returned
\* None or the body of its last response, a success; an unexpected error
\* is its last event, with None returned and neither sleep nor request
\* after it.
FetchNeverRaises ==
    LET tk == task[0]
        outs == Outcomes(tk)
        n == Len(outs) IN
    /\ tk.pc # "raised"
    /\ call.pc # "raised"
    /\ n <= max_retries + 1
    /\ tk.pc = "done" =>
          \/ tk.result = None
          \/ n > 0 /\ IsSuccess(outs[n]) /\ tk.result = Str(outs[n].body)
    /\ \A i \in 1..Len(tk.log) :
          (tk.log[i].ev = "attempt" /\ IsUnexpected(tk.log[i].out)) =>
              /\ i = Len(tk.log)
              /\ tk.pc = "done"
              /\ tk.result = None

\* C11 witness: a 500, the backoff sleep, then a RuntimeError ended the
\* fetch with None while retries of the default budget were left.
FetchNeverRaisesWitness ==
    /\ max_retries = DefaultMaxRetries
    /\ task[0].pc = "done"
    /\ task[0].result = None
    /\ task[0].retry_count = 1
    /\ Len(task[0].log) = 3
    /\ Outcomes(task[0])[1].status = 500
    /\ Outcomes(task[0])[2].exc = "RuntimeError"

\* The 429 that ended the fetch because its Retry-After is no integer.
AbortedBy429(o) ==
    Is429(o) /\ o.retry_after \notin (DOMAIN DecimalStrings \cup {NoHeader})
\* The retryable outcomes of a fetch that its loop went on from.
RetriesOf(tk) ==
    LET outs == Outcomes(tk) IN
    {i \in 1..Len(outs) : IsRetryable(outs[i]) /\ ~AbortedBy429(outs[i])}

AllAttempts == UNION {{Attempts(task[t])[i] : i \in 1..Len(Attempts(task[t]))} : t \in TaskIds}

\* C13: on one crawler, through session start, page fetches, searches with
\* their concurrent detail fetches and session end in any order, at most
\* one ClientSession is ever created and every request is sent on it.
OneSessionEver ==
    /\ opened <= 1
    /\ \A e \in AllAttempts : e.session = 1

\* C14: when the crawl session has ended, every ClientSession the crawler
\* created has been closed.
SessionsClosedAtEnd ==
    client.phase = "exited" => \A n \in 1..opened : n \in closed

\* http:// put before a proxy that has no scheme.
WithScheme(p) ==
    IF Head(p) = "http://" \/ Head(p) = "https://" THEN p ELSE <<"http://">> \o p

\* C15: after any number of set_proxies calls the pool is the list last
\* passed; a non-empty pool has one of its proxies selected, with http://
\* before it when it came without a scheme; an empty pool has none selected.
ProxySelectionOfLastCall ==
    /\ proxies = client.passed
    /\ proxies # <<>> =>
          \E i \in 1..Len(proxies) : current_proxy = WithScheme(proxies[i])
    /\ proxies # <<>> => Head(current_proxy) \in {"http://", "https://"}
    /\ proxies = <<>> => current_proxy = NoProxy

\* C15 witness: set_proxies was called with a pool and then with the pool
\* of ip:port and https:// proxies, and the ip:port one is selected.
ProxySelectionWitness ==
    /\ client.ops >= 2
    /\ proxies = <<Proxy1, Proxy2>>
    /\ client.passed = <<Proxy1, Proxy2>>
    /\ current_proxy = <<"http://", "127.0.0.1:8080">>

FetchPageTriesEveryProxy ==
    (call.pc = "returned" /\ call.fetch_calls > 0 /\ proxies # <<>>
       /\ Falsy(call.content)) =>
        call.fetch_calls = Len(proxies)

\* The detail tasks that were started.
Started == {t \in 1..MaxLinks : task[t].pc # "idle"}

\* C18: in a Repositories search a detail task exists only once the fetch
\* of the search page returned content; then there is one task per link of
\* the page, all started together and each free to take its next step
\* whatever the others are at; search has returned only when all are done.
FanOutAfterSearchPageJoinBeforeReturn ==
    /\ Started # {} =>
          /\ call.search_type = "Repositories"
          /\ task[0].pc = "done"
          /\ ~Falsy(task[0].result)
          /\ Started = 1..LinkCount(task[0].result.text)
          /\ \A t \in Started : task[t].url = call.repo_urls[t]
    /\ (call.pc = "gather") => Started # {}
    /\ (call.pc = "gather") =>
          \A t \in Started :
              task[t].pc # "done" =>
                  ENABLED (Attempt(t, OutcomesOver(DetailDocs), FALSE) \/ Wake(t))
    /\ (call.pc = "returned") => \A t \in Started : task[t].pc = "done"

\* C18 witness: the gather of two links with both detail fetches suspended
\* in a backoff sleep at once.
FanOutWitness ==
    /\ call.pc = "gather"
    /\ Len(call.repo_urls) = 2
    /\ task[1].pc = "sleep_backoff"
    /\ task[2].pc = "sleep_backoff"

\* C19: an Issues or Wikis search starts no detail task, its one fetch is
\* that of the search page, and it returns one record per result link, in
\* the order of the page, each holding the url of the link and nothing else.
IssuesAndWikisUrlOnly ==
    (call.pc \notin {"idle", "direct"} /\ call.search_type \in {"Issues", "Wikis"}) =>
        /\ \A t \in 1..MaxLinks : task[t] = IdleTask
        /\ call.pc # "gather"
        /\ (call.pc = "returned" /\ ~Falsy(task[0].result)) =>
              LET L == ParseSearchResults(task[0].result.text) IN
              /\ Len(call.results) = LinkCount(task[0].result.text)
              /\ Len(call.results) = Len(L)
              /\ \A i \in 1..Len(L) :
                    /\ DOMAIN call.results[i] = {"url"}
                    /\ call.results[i].url = L[i]

\* C19 witness: a Wikis search returned the two different links of its page
\* after one retry of the search page.
IssuesAndWikisWitness ==
    /\ call.pc = "returned"
    /\ call.search_type = "Wikis"
    /\ Len(Attempts(task[0])) = 2
    /\ Len(call.results) = 2
    /\ call.results[1].url = Url("https://github.com", "/u/r1", <<>>)
    /\ call.results[2].url = Url("https://github.com", "/u/r2", <<>>)

\* C20: a Repositories search that got its search page returns, without
\* raising, one record per link; the record of a link whose page came back
\* absent or empty is its url with owner "" and no language, and the record
\* of every other link is built from that link's own page alone.
DegradedRecordLeavesOthers ==
    (call.pc \notin {"idle", "direct"} /\ call.search_type = "Repositories") =>
        /\ call.pc # "raised"
        /\ (call.pc = "returned" /\ ~Falsy(call.content)) =>
              LET L == call.repo_urls IN
              /\ Len(call.results) = Len(L)
              /\ \A i \in 1..Len(L) :
                    call.results[i] =
                        IF Falsy(task[i].result)
                        THEN [url |-> L[i],
                              extra |-> [owner |-> "", language_stats |-> <<>>]]
                        ELSE [url |-> L[i],
                              extra |-> [owner |-> OwnerOf(task[i].result.text),
                                         language_stats |->
                                             LanguageStats(task[i].result.text)]]

\* C20 witness: of two links the first page could not be fetched and the
\* second was; the search returned the degraded record and the full one.
DegradedRecordWitness ==
    /\ call.pc = "returned"
    /\ call.search_type = "Repositories"
    /\ Len(call.results) = 2
    /\ task[1].result = None
    /\ call.results[1].extra = [owner |-> "", language_stats |-> <<>>]
    /\ task[2].result = Str(RepoDoc)
    /\ call.results[2].extra.owner = "alice"
    /\ call.results[2].extra.language_stats # <<>>

\* The direct calls of _get_repo_details that were given a page.
DetailsGot ==
    {i \in 1..Len(client.got) :
        client.got[i].op = "details" /\ ~Falsy(client.got[i].content)}
\* The items of a list whose percentage text is a number.
ValidItems(items) == {k \in 1..Len(items) : items[k][2] \in DOMAIN PercentTexts}
\* The list of a page that the statistics are taken from.
TierUsed(d) == IF ValidItems(d.langs) # {} THEN d.langs ELSE d.alt_langs
\* The names of the statistics of a record.
NamesOf(stats) == {stats[k][1] : k \in 1..Len(stats)}

\* C21: the statistics of a page hold no item whose percentage text is not
\* a number and hold every language of the list that has an item with a
\* valid percentage, with the value of such an item; the owner is
\* extracted all the same.
MalformedPercentageSkipped ==
    \A i \in DetailsGot :
        LET d == client.got[i].content.text
            stats == client.got[i].details.extra.language_stats
            items == TierUsed(d) IN
        /\ NamesOf(stats) = {items[k][1] : k \in ValidItems(items)}
        /\ \A n \in 1..Len(stats) :
              \E k \in ValidItems(items) :
                  stats[n] = <<items[k][1], PercentTexts[items[k][2]]>>
        /\ d.author.present => client.got[i].details.extra.owner = d.author.text

\* C21 witness: a list of Python with the text "invalid" and JavaScript
\* with 24.5% gave JavaScript alone, and the owner testuser.
MalformedPercentageWitness ==
    \E i \in DetailsGot :
        /\ client.got[i].content.text.langs =
               <<<<"Python", "invalid">>, <<"JavaScript", "24.5%">>>>
        /\ client.got[i].details.extra.language_stats = <<<<"JavaScript", 245>>>>
        /\ client.got[i].details.extra.owner = "testuser"

BackoffSleeps(log) ==
    {i \in 2..Len(log) : log[i].ev = "sleep" /\ ~Is429(log[i - 1].out)}

\* C23: the k-th backoff sleep of a fetch, counting only those after a
\* retryable 5xx status, a connection error or a timeout, lasts from d to
\* d + d/10 with d = retry_delay * 2^(k-1), and the next request has delay
\* 2d; a sleep after a 429 with Retry-After: n lasts exactly n seconds, and
\* the request after any 429 sleep has the delay of the request before it.
BackoffDelayLaw ==
    LET log == task[0].log IN
    \A i \in 1..Len(log) :
        log[i].ev = "sleep" =>
            /\ i > 1
            /\ log[i - 1].ev = "attempt"
            /\ IsRetryable(log[i - 1].out)
            /\ IF Is429(log[i - 1].out)
               THEN /\ log[i].lo = log[i].hi
                    /\ log[i - 1].out.retry_after \in DOMAIN DecimalStrings =>
                          log[i].lo = DecimalStrings[log[i - 1].out.retry_after] * Second
                    /\ i < Len(log) => log[i + 1].delay = log[i - 1].delay
               ELSE LET k == Cardinality({j \in BackoffSleeps(log) : j <= i})
                        d == retry_delay * 2^(k - 1) IN
                    /\ log[i - 1].delay = d
                    /\ log[i].lo = d
                    /\ log[i].hi = d + d \div 10
                    /\ i < Len(log) => log[i + 1].delay = 2 * d

\* C23 witness: with retry_delay 1.5 s, a 500, a 429 with Retry-After: 2 and
\* a timeout: sleeps of 1.5 to 1.65 s, of 2 s, and of 3 to 3.3 s.
BackoffDelayWitness ==
    LET log == task[0].log IN
    /\ retry_delay = 1500
    /\ Len(log) = 6
    /\ Outcomes(task[0])[1].status = 500
    /\ log[2].lo = 1500 /\ log[2].hi = 1650
    /\ Is429(Outcomes(task[0])[2])
    /\ log[4].lo = 2000 /\ log[4].hi = 2000
    /\ Outcomes(task[0])[3].exc = "TimeoutError"
    /\ log[6].lo = 3000 /\ log[6].hi = 3300

ParsesGot == {i \in 1..Len(client.got) : client.got[i].op = "parse"}
\* The matched anchors of a page, those inside the results container.
Matched(d) == IF d.container THEN d.anchors ELSE <<>>
\* The position in `a` of the k-th anchor that satisfies Has.
KthWith(a, k, Has(_)) ==
    CHOOSE i \in 1..Len(a) :
        Has(a[i]) /\ Cardinality({j \in 1..i : Has(a[j])}) = k
\* The absolute URL of an href: its own origin, or that of the crawler.
Absolute(h) == Url(IF h.origin = "" THEN base_url ELSE h.origin, h.path, <<>>)
HasHref(h) == h.present
HasNonEmptyHref(h) == h.present /\ ~(h.origin = "" /\ h.path = "")
\* urls holds the absolute URL of each anchor of `a` that satisfies Has, in
\* the order of `a`, repetitions kept.
LinksOf(urls, a, Has(_)) ==
    /\ Len(urls) = Cardinality({j \in 1..Len(a) : Has(a[j])})
    /\ \A k \in 1..Len(urls) : urls[k] = Absolute(a[KthWith(a, k, Has)])

\* C25 as stated: _parse_search_results returns the absolute URL of every
\* matched anchor that has an href attribute, in document order, with
\* repetitions, and the empty list when container or anchors are missing.
LinksOfAnchorsWithHref ==
    \A i \in ParsesGot :
        LinksOf(client.got[i].urls, Matched(client.got[i].content.text), HasHref)

\* C25 amended: _parse_search_results returns the absolute URL of every
\* matched anchor whose href is present and not the empty string, in
\* document order, with repetitions, and the empty list when container or
\* anchors are missing.
LinksOfAnchorsWithNonEmptyHref ==
    \A i \in ParsesGot :
        LinksOf(client.got[i].urls, Matched(client.got[i].content.text),
                HasNonEmptyHref)

\* C25 witness: an anchor with an absolute href before one with a
\* root-relative href gave the two URLs in that order.
LinksOfAnchorsWitness ==
    \E i \in ParsesGot :
        /\ client.got[i].content.text.anchors =
               <<AbsHref("https://github.com", "/u/r2"), RelHref("/u/r1")>>
        /\ client.got[i].urls =
               <<Url("https://github.com", "/u/r2", <<>>),
                 Url("https://github.com", "/u/r1", <<>>)>>

\* C26: the owner of a record is the stripped text of the author element
\* when the page has one, else of the user hover-card link when it has
\* one, else of the organization hover-card link when it has one, else "".
OwnerByFirstMatch ==
    \A i \in DetailsGot :
        LET d == client.got[i].content.text
            owner == client.got[i].details.extra.owner IN
        /\ d.author.present => owner = d.author.text
        /\ (~d.author.present /\ d.user_card.present) => owner = d.user_card.text
        /\ (~d.author.present /\ ~d.user_card.present /\ d.org_card.present) =>
              owner = d.org_card.text
        /\ (~d.author.present /\ ~d.user_card.present /\ ~d.org_card.present) =>
              owner = ""

\* C26 witness: a page without author element, with the user link bob and
\* the organization link acme, gave the owner bob.
OwnerByFirstMatchWitness ==
    \E i \in DetailsGot :
        LET d == client.got[i].content.text IN
        /\ ~d.author.present
        /\ d.user_card = Elem("bob", FALSE)
        /\ d.org_card = Elem("acme", FALSE)
        /\ client.got[i].details.extra.owner = "bob"

\* The name -> percentage mapping of a record's statistics.
StatsMap(stats) ==
    [n \in NamesOf(stats) |->
        stats[CHOOSE k \in 1..Len(stats) : stats[k][1] = n][2]]
\* The mapping a list of items gives: each language with a valid item, at
\* the value of its last valid item.
MapOfItems(items) ==
    [n \in {items[k][1] : k \in ValidItems(items)} |->
        LET last == CHOOSE k \in ValidItems(items) :
                        /\ items[k][1] = n
                        /\ \A j \in ValidItems(items) : items[j][1] = n => j <= k
        IN PercentTexts[items[last][2]]]

\* C27: when the Languages list gives at least one pair the statistics are
\* exactly its pairs, whatever the alternate layout holds; the alternate
\* layout gives the statistics only when the Languages list gave no pair.
TwoTierFallback ==
    \A i \in DetailsGot :
        LET d == client.got[i].content.text
            stats == client.got[i].details.extra.language_stats IN
        /\ Len(stats) = Cardinality(NamesOf(stats))
        /\ StatsMap(stats) = IF ValidItems(d.langs) # {}
                              THEN MapOfItems(d.langs)
                              ELSE MapOfItems(d.alt_langs)

\* C27 witness: Python 75.5% in the Languages list and Rust 100% in the
\* alternate layout gave Python alone.
TwoTierFallbackWitness ==
    \E i \in DetailsGot :
        LET d == client.got[i].content.text IN
        /\ d.langs = <<<<"Python", "75.5%">>>>
        /\ d.alt_langs = <<<<"Rust", "100%">>>>
        /\ client.got[i].details.extra.language_stats = <<<<"Python", 755>>>>

\* C28: every percentage of the statistics of a record is at least 0.0 and
\* at most 100.0.
PercentagesInRange ==
    \A i \in DetailsGot :
        LET stats == client.got[i].details.extra.language_stats IN
        \A k \in 1..Len(stats) : stats[k][2] >= 0 /\ stats[k][2] <= 100 * 10

\* C29 as stated: a fetch that returned None did a request last, not a
\* sleep, whatever outcome spent its budget.
NoSleepBeforeGivingUp ==
    LET tk == task[0] IN
    (tk.pc = "done" /\ tk.result = None /\ tk.log # <<>>) =>
        tk.log[Len(tk.log)].ev = "attempt"

\* C29 amended: a fetch that returned None did a request last, except
\* when the outcome that spent its budget was a 429: then it slept the
\* wait of that 429 and returned None with no further request.
NoSleepBeforeGivingUpBut429 ==
    LET tk == task[0]
        n == Len(tk.log) IN
    (tk.pc = "done" /\ tk.result = None /\ n > 0) =>
        \/ tk.log[n].ev = "attempt"
        \/ /\ n > 1
           /\ tk.log[n].ev = "sleep"
           /\ tk.log[n].lo = tk.log[n].hi
           /\ Is429(tk.log[n - 1].out)
           /\ Len(Attempts(tk)) = max_retries + 1

\* C29 witness: with a budget of one retry, a 500, the backoff sleep and a
\* 429 with Retry-After: 2: the fetch slept the 2 s and returned None.
SleepAfterLast429Witness ==
    LET tk == task[0] IN
    /\ max_retries = 1
    /\ tk.pc = "done"
    /\ tk.result = None
    /\ Len(tk.log) = 4
    /\ Outcomes(tk)[1].status = 500
    /\ Is429(Outcomes(tk)[2])
    /\ tk.log[4].ev = "sleep"
    /\ tk.log[4].lo = 2 * Second

\* C30: under every interleaving each fetch has a counter and a delay of its
\* own: it starts at count 0 and delay retry_delay, its count is the number
\* of its own retryable outcomes, the delay of each of its requests is
\* retry_delay doubled once per backoff sleep of its own, and it sends at
\* most max_retries + 1 requests, whatever the other fetches met.
RetryStatePerFetch ==
    \A t \in TaskIds :
        LET tk == task[t]
            log == tk.log IN
        tk.pc # "idle" =>
            /\ Len(Attempts(tk)) <= max_retries + 1
            /\ log = <<>> => tk.retry_count = 0 /\ tk.delay = retry_delay
            /\ tk.retry_count =
                  Cardinality(RetriesOf(tk)) - (IF tk.pc = "sleep_429" THEN 1 ELSE 0)
            /\ \A i \in 1..Len(log) :
                  log[i].ev = "attempt" =>
                      log[i].delay =
                          retry_delay * 2^Cardinality({j \in BackoffSleeps(log) : j < i})

\* C30 witness: with a budget of one retry the search page and both detail
\* pages each took two requests, six in all, and the detail fetches began
\* at the initial delay after the search-page fetch had doubled its own.
RetryStatePerFetchWitness ==
    /\ max_retries = 1
    /\ \A t \in 0..2 : Len(Attempts(task[t])) = 2
    /\ task[0].delay = 2 * retry_delay
    /\ task[1].log[1].delay = retry_delay
    /\ task[2].log[1].delay = retry_delay
    /\ task[1].result = None
    /\ task[2].result = Str(RepoDoc)

\* C32: once the crawl session has ended the crawler holds the session it
\* closed: no step opens a session or changes the one held, and every
\* request of a later fetch is sent on the closed session.
ClosedSessionReused ==
    /\ [](client.phase = "exited" =>
            /\ session # 0
            /\ session \in closed
            /\ \A e \in AllAttempts : e.session = session)
    /\ [][client.phase = "exited" => opened' = opened /\ session' = session]_vars

\* C32 witness: after session end a _fetch_page sent its request, on the
\* session that __aexit__ closed.
ClosedSessionReusedWitness ==
    /\ client.phase = "exited"
    /\ call.pc \in {"page", "returned"}
    /\ call.fetch_calls = 1
    /\ Len(Attempts(task[0])) >= 1
    /\ Attempts(task[0])[1].session \in closed

\* A fetch that has not returned: about to send a request, or asleep.
Fetching(t) == task[t].pc \in {"attempt", "sleep_429", "sleep_backoff"}
\* A fetch that returned: the body of its last response, a success, or None.
Finished(t) ==
    LET outs == Outcomes(task[t])
        n == Len(outs) IN
    /\ task[t].pc = "done"
    /\ \/ task[t].result = None
       \/ n > 0 /\ IsSuccess(outs[n]) /\ task[t].result = Str(outs[n].body)

\* C31: when every request gets its outcome and every sleep ends, a fetch
\* sends at most max_retries + 1 requests and, from any state in which it
\* is sending or asleep, comes to return a body or None; a search whose
\* detail tasks are all done comes to return, and so does every search
\* that sent its first request.
FetchesAndSearchTerminate ==
    /\ [](\A t \in TaskIds : Len(Attempts(task[t])) <= max_retries + 1)
    /\ \A t \in TaskIds : Fetching(t) ~> Finished(t)
    /\ (call.pc = "gather" /\ \A i \in 1..Len(call.repo_urls) : task[i].pc = "done")
          ~> (call.pc = "returned")
    /\ (call.pc \in {"fetch", "gather"}) ~> (call.pc = "returned")

\* C31 witness: with one retry allowed, a Repositories search returned two
\* records after one detail fetch was rate-limited, slept and succeeded
\* and the other met two 503s and gave up.
FetchesAndSearchTerminateWitness ==
    /\ max_retries = 1
    /\ call.pc = "returned"
    /\ Len(call.results) = 2
    /\ Len(Attempts(task[1])) = 2
    /\ Is429(Outcomes(task[1])[1])
    /\ IsSuccess(Outcomes(task[1])[2])
    /\ task[1].result = Str(RepoDoc)
    /\ Len(Attempts(task[2])) = 2
    /\ Outcomes(task[2])[2].status = 503
    /\ task[2].result = None
====
